---- MODULE Spec2Model ----
(***************************************************************************)
(* A model of streamlit_app.py, the AI Interview Coach.                    *)
(*                                                                         *)
(* Texts are TLA+ strings, read character by character with SubSeq, so     *)
(* the regular expressions, the case folding and the substring tests of    *)
(* the program are modelled on characters.  Real numbers are exact         *)
(* fractions <<n, d>>; the values overall_score reports (round(x*100, 1))  *)
(* are integers counting tenths of a point, so 1000 stands for 100.0.      *)
(* The typographic apostrophe U+2019 of the source is written ^ here,      *)
(* because a TLA+ string holds ASCII only.                                 *)
(***************************************************************************)
EXTENDS Integers, Sequences, FiniteSets, TLC

VARIABLES
    pc,          \* which step of the modelled run was taken last
    question,    \* the script global `question` (line 277); the q handed to overall_score
    answer,      \* the script global `answer` (line 282); the a handed to overall_score
    grade,       \* what textstat.flesch_kincaid_grade does on `answer` (line 68)
    scores,      \* the dictionary overall_score returned last
    raw_text,    \* the job spec text handed to the keyword extractor
    k,           \* the k handed to derive_keywords
    kws,         \* the list derive_keywords returned last
    custom_pool, \* st.session_state["custom_pool"]: <<>> while the key is absent, else <<the pool>>
    whitelist_order, \* the order in which this process iterates over the set _WHITELIST
    QUESTIONS,   \* the module global QUESTIONS (line 43): what load_questions returned
    role,        \* the widget values of the side bar, lines 242-254
    qtype,
    difficulty,
    use_llm,
    api_base,
    api_key,
    spec_url,
    spec_text,
    history,     \* st.session_state["history"]
    timer_start, \* st.session_state["timer_start"]: <<>> while the key is absent, else <<the time>>
    now,         \* the last reading of time.time(), in whole seconds
    response     \* what the remote call of llm_feedback met last

scoreVars == <<question, answer, grade, scores>>
specVars == <<raw_text, k, kws, custom_pool, whitelist_order>>
widgetVars == <<role, qtype, difficulty, use_llm, api_base, api_key, spec_url, spec_text>>
sessionVars == <<QUESTIONS, widgetVars, history, timer_start, now, response>>
vars == <<pc, scoreVars, specVars, sessionVars>>

-----------------------------------------------------------------------------
(* Characters and strings *)

LOWERCASE == "abcdefghijklmnopqrstuvwxyz"
UPPERCASE == "ABCDEFGHIJKLMNOPQRSTUVWXYZ"
DIGITS == "0123456789"

Ch(s, i) == SubSeq(s, i, i)

CharsOf(s) == {Ch(s, i) : i \in 1..Len(s)}

Letters == CharsOf(LOWERCASE) \cup CharsOf(UPPERCASE)

\* \w of the re module, on the ASCII characters the model's texts hold
WordChars == Letters \cup CharsOf(DIGITS) \cup {"_"}

\* \s of the re module
SpaceChars == {" ", "\t", "\n", "\r", "\f"}

UpperChars == CharsOf(UPPERCASE)

LowerOf == [c \in UpperChars |->
    LET i == CHOOSE j \in 1..Len(UPPERCASE) : Ch(UPPERCASE, j) = c
    IN  Ch(LOWERCASE, i)]

LowerChar(c) == IF c \in UpperChars THEN LowerOf[c] ELSE c

\* str.lower(); the string is halved so that the recursion stays shallow
RECURSIVE Lower(_)
Lower(s) ==
    IF Len(s) = 0 THEN s
    ELSE IF Len(s) = 1 THEN LowerChar(s)
    ELSE LET h == Len(s) \div 2
         IN  Lower(SubSeq(s, 1, h)) \o Lower(SubSeq(s, h + 1, Len(s)))

\* kw in t, for a non-empty kw
Contains(t, kw) ==
    \E i \in 1..(Len(t) - Len(kw) + 1) : SubSeq(t, i, i + Len(kw) - 1) = kw

\* Body(v), with v evaluated once, ahead of Body: the way Python binds a local
Bind(v, Body(_)) == CHOOSE r \in {Body(x) : x \in {v}} : TRUE

IsWordAt(t, i) == i >= 1 /\ i <= Len(t) /\ Ch(t, i) \in WordChars

\* \b between the characters i-1 and i of t
BoundaryAt(t, i) == IsWordAt(t, i - 1) # IsWordAt(t, i)

\* the places where a match of \b\w+\b starts: the starts of the maximal runs of \w
WordStarts(t) == {i \in 1..Len(t) : IsWordAt(t, i) /\ ~IsWordAt(t, i - 1)}

WordEnd(t, i) == CHOOSE j \in i..Len(t) :
    /\ \A m \in i..j : IsWordAt(t, m)
    /\ ~IsWordAt(t, j + 1)

\* len(re.findall(r"\b\w+\b", t))
WordCount(t) == Cardinality(WordStarts(t))

\* set(re.findall(r"\b\w+\b", t))
WordSet(t) == {SubSeq(t, i, WordEnd(t, i)) : i \in WordStarts(t)}

\* the number of matches of rf"\b{re.escape(f)}\b" in t (matches of one f never overlap)
PhraseCount(t, f) ==
    Cardinality({i \in 1..(Len(t) - Len(f) + 1) :
        /\ SubSeq(t, i, i + Len(f) - 1) = f
        /\ BoundaryAt(t, i)
        /\ BoundaryAt(t, i + Len(f))})

-----------------------------------------------------------------------------
(* Exact fractions *)

Max(a, b) == IF a >= b THEN a ELSE b
Min(a, b) == IF a <= b THEN a ELSE b

RECURSIVE GCD(_, _)
GCD(a, b) == IF b = 0 THEN a ELSE GCD(b, a % b)

Abs(a) == IF a < 0 THEN -a ELSE a

\* the fraction n/d in lowest terms, d > 0
Frac(n, d) == LET g == GCD(Abs(n), d) IN <<n \div g, d \div g>>

FAdd(x, y) == Frac(x[1] * y[2] + y[1] * x[2], x[2] * y[2])
FSub(x, y) == Frac(x[1] * y[2] - y[1] * x[2], x[2] * y[2])
FMul(x, y) == Frac(x[1] * y[1], x[2] * y[2])
FLeq(x, y) == x[1] * y[2] <= y[1] * x[2]
FMax(x, y) == IF FLeq(y, x) THEN x ELSE y
FMin(x, y) == IF FLeq(x, y) THEN x ELSE y

Zero == <<0, 1>>
One == <<1, 1>>

\* round(x*100, 1) counted in tenths, for 0 <= x <= 1: the nearest integer to
\* 1000*x, a tie going to the even one.  (Python rounds the binary float,
\* which at an exact tie may land one tenth away.)
RoundPct(x) ==
    LET n == x[1]
        d == x[2]
        t1 == (n % d) * 10
        t2 == (t1 % d) * 10
        t3 == (t2 % d) * 10
        f == (n \div d) * 1000 + (t1 \div d) * 100 + (t2 \div d) * 10 + (t3 \div d)
        r == t3 % d
    IN  IF 2 * r > d \/ (2 * r = d /\ f % 2 = 1) THEN f + 1 ELSE f

-----------------------------------------------------------------------------
(* Heuristic scoring, lines 16-87 *)

FILLERS == {"um", "uh", "like", "you know", "sort of", "kind of", "basically",
            "actually", "literally", "I guess"}

STAR_KEYS == [s |-> {"situation", "background", "context"},
              t |-> {"task", "goal", "objective", "responsibility"},
              a |-> {"action", "approach", "what I did", "how I did"},
              r |-> {"result", "outcome", "impact", "metric", "learned"}]

DEFAULT_QUESTION == "Tell me about a time you handled a difficult challenge."

RECURSIVE SumOver(_, _, _)
SumOver(S, t, acc) ==
    IF S = {} THEN acc
    ELSE LET f == CHOOSE x \in S : TRUE
         IN  SumOver(S \ {f}, t, acc + PhraseCount(t, f))

\* int(len(re.findall(r"\b\w+\b", text))*1.33)
token_count(text) == (WordCount(text) * 133) \div 100

detect_fillers(text) == SumOver(FILLERS, Lower(text), 0)

star_coverage(text) ==
    LET t == Lower(text)
    IN  [fam \in DOMAIN STAR_KEYS |->
            IF \E kw \in STAR_KEYS[fam] : Contains(t, kw) THEN 1 ELSE 0]

relevance(q, a) ==
    LET qt == WordSet(Lower(q))
        at == WordSet(Lower(a))
        overlap == Cardinality(qt \cap at)
    IN  IF qt = {} THEN Zero
        \* overlap/max(5, len(qt)*0.6) = 5*overlap/max(25, 3*len(qt))
        ELSE FMin(One, Frac(5 * overlap, Max(25, 3 * Cardinality(qt))))

\* conciseness with the band opened one word late (150 < words)
conciseness_late_band(a) ==
    LET words == WordCount(a)
    IN  IF words = 0 THEN Zero
        ELSE IF 150 < words /\ words <= 300 THEN One
        ELSE IF words < 150 THEN FMax(Zero, Frac(words, 150))
        ELSE FMax(Zero, FSub(One, Frac(words - 300, 400)))

conciseness(a) ==
    LET words == WordCount(a)
    IN  IF words = 0 THEN Zero
        ELSE IF 150 <= words /\ words <= 300 THEN One
        ELSE IF words < 150 THEN FMax(Zero, Frac(words, 150))
        ELSE FMax(Zero, FSub(One, Frac(words - 300, 400)))

\* What textstat.flesch_kincaid_grade(a) does is the library's business: it
\* either raises (ok = FALSE) or returns a grade, here counted in tenths.
GradeFails == [ok |-> FALSE, tenths |-> 0]
GradeIs(g) == [ok |-> TRUE, tenths |-> g]

\* readability with the degenerate grade scored 0.0 instead of 0.5, and the failure too
readability_zero_degenerate(fk) ==
    LET g == fk.tenths
    IN  IF ~fk.ok THEN Zero
        ELSE IF g <= 0 THEN Zero
        ELSE IF 70 <= g /\ g <= 110 THEN One
        ELSE IF g < 70 THEN FMax(Frac(6, 10), Frac(g, 70))
        ELSE FMax(Frac(3, 10), FSub(One, Frac(g - 110, 100)))

readability(fk) ==
    LET g == fk.tenths
    IN  IF ~fk.ok THEN Frac(6, 10)
        ELSE IF g <= 0 THEN Frac(5, 10)
        ELSE IF 70 <= g /\ g <= 110 THEN One
        ELSE IF g < 70 THEN FMax(Frac(6, 10), Frac(g, 70))
        ELSE FMax(Frac(3, 10), FSub(One, Frac(g - 110, 100)))

structure_score(a) ==
    LET cov == star_coverage(a)
    IN  Frac(20 * cov.s + 25 * cov.t + 30 * cov.a + 25 * cov.r, 100)

\* filler_penalty without its cap of 0.2
filler_penalty_uncapped(a) ==
    LET words == WordCount(a)
    IN  IF words = 0 THEN Zero
        ELSE Frac(detect_fillers(a) * 20, words)

filler_penalty(a) ==
    LET words == WordCount(a)
    IN  IF words = 0 THEN Zero
        ELSE FMin(Frac(2, 10), Frac(detect_fillers(a) * 20, words))

overall_score(q, a, fk) ==
    LET rel == relevance(q, a)
        stru == structure_score(a)
        conc == conciseness(a)
        read == readability(fk)
        tok == token_count(a)
        pen == filler_penalty(a)
        base0 == FAdd(FAdd(FMul(Frac(3, 10), rel), FMul(Frac(3, 10), stru)),
                      FAdd(FMul(Frac(2, 10), conc), FMul(Frac(2, 10), read)))
        base == FMax(Zero, FMin(One, FSub(base0, pen)))
    IN  [relevance |-> RoundPct(rel), structure |-> RoundPct(stru),
         conciseness |-> RoundPct(conc), readability |-> RoundPct(read),
         tokens_est |-> tok, final |-> RoundPct(base),
         filler_penalty |-> RoundPct(pen)]

NoScores == [relevance |-> 0, structure |-> 0, conciseness |-> 0, readability |-> 0,
             tokens_est |-> 0, final |-> 0, filler_penalty |-> 0]

-----------------------------------------------------------------------------
(* Job spec extraction, lines 116-201 *)

STOP == {
    "a", "an", "the", "and", "or", "for", "with", "from", "this", "that", "these",
    "those", "to", "of", "in", "on", "by", "as", "is", "are", "be",
    "will", "would", "could", "should", "can", "may", "might", "must", "your", "you",
    "you'll", "we", "we'll", "our", "they", "their",
    "role", "roles", "responsibility", "responsibilities", "requirement",
    "requirements", "about", "if", "have", "has", "had",
    "do", "did", "done", "make", "made", "get", "got", "work", "working", "team",
    "teams", "department", "company", "organisation", "organization",
    "experience", "experiences", "strong", "excellent", "good", "ability", "etc",
    "using", "use", "used", "across", "within"}

WHITELIST == {
    "sql", "aws", "gcp", "azure", "sap", "crm", "seo", "ppc", "ga4", "gdpr", "kpi",
    "okr", "ui", "ux", "qa", "api", "ml", "nlp", "etl", "bi",
    "ci", "cd", "cicd", "devops", "saas", "b2b", "b2c", "b2g", "pm", "ba", "kpis",
    "okrs", "sme", "smes"}

PREFERENCE == {
    "stakeholder", "management", "roadmap", "discovery", "experimentation",
    "go-to-market", "customer", "retention", "acquisition", "churn", "pipeline",
    "forecast", "data", "quality", "governance", "privacy", "security", "gdpr",
    "analytics", "dashboard", "reporting", "product", "design", "research",
    "usability", "a/b", "experiments", "engineering", "architecture",
    "scalability", "reliability", "marketing", "campaign", "seo", "ppc",
    "paid", "creative", "salesforce", "hubspot", "tableau", "power", "bi",
    "excel", "python", "java", "react", "node", "sql", "aws"}

Range(seq) == {seq[i] : i \in 1..Len(seq)}

\* The end of the match of the two-word pattern (?i)\b<first>\s+<second>\b that
\* starts at i, or 0 when none starts there.
TwoWordMatchEnd(t, i, first, second) ==
    LET a == i + Len(first)       \* where the white space has to start
        spaces == {j \in a..Len(t) : \A m \in a..j : Ch(t, m) \in SpaceChars}
        b == a + Cardinality(spaces)     \* where the second word has to start
        e == b + Len(second)             \* the first character after the match
    IN  IF /\ BoundaryAt(t, i)
           /\ a - 1 <= Len(t)
           /\ Lower(SubSeq(t, i, a - 1)) = first
           /\ spaces # {}
           /\ e - 1 <= Len(t)
           /\ Lower(SubSeq(t, b, e - 1)) = second
           /\ BoundaryAt(t, e)
        THEN e
        ELSE 0

\* The end of the match of (?i)\b<word>\b that starts at i, or 0.
OneWordMatchEnd(t, i, word) ==
    LET e == i + Len(word)
    IN  IF /\ BoundaryAt(t, i)
           /\ e - 1 <= Len(t)
           /\ Lower(SubSeq(t, i, e - 1)) = word
           /\ BoundaryAt(t, e)
        THEN e
        ELSE 0

\* The concatenation of the strings pieces[lo..hi]; the range is halved so that
\* the recursion stays shallow.
RECURSIVE JoinStr(_, _, _)
JoinStr(pieces, lo, hi) ==
    IF lo > hi THEN ""
    ELSE IF lo = hi THEN pieces[lo]
    ELSE LET mid == (lo + hi) \div 2
         IN  JoinStr(pieces, lo, mid) \o JoinStr(pieces, mid + 1, hi)

\* The concatenation of the lists pieces[lo..hi].
RECURSIVE JoinSeq(_, _, _)
JoinSeq(pieces, lo, hi) ==
    IF lo > hi THEN <<>>
    ELSE IF lo = hi THEN pieces[lo]
    ELSE LET mid == (lo + hi) \div 2
         IN  JoinSeq(pieces, lo, mid) \o JoinSeq(pieces, mid + 1, hi)

\* re.sub(pattern, " ", t), given for every place of t where a match ends if
\* one starts there (0: none starts there).  The matches of the patterns of
\* _clean_jd_text cannot overlap, so every place where the pattern matches is
\* a match of the left-to-right scan.
Substitute(t, matchEnd) ==
    LET starts == {i \in 1..Len(t) : matchEnd[i] > 0}
        inside == UNION {(i + 1)..(matchEnd[i] - 1) : i \in starts}
        pieces == [i \in 1..Len(t) |->
                      IF i \in inside THEN ""
                      ELSE IF i \in starts THEN " "
                      ELSE Ch(t, i)]
    IN  JoinStr(pieces, 1, Len(t))

\* re.sub(r"(?i)\b<first>\s+<second>\b", " ", t)
SubTwoWords(t, first, second) ==
    Substitute(t, [i \in 1..Len(t) |-> TwoWordMatchEnd(t, i, first, second)])

\* re.sub(r"(?i)\b<word>\b", " ", t)
SubOneWord(t, word) ==
    Substitute(t, [i \in 1..Len(t) |-> OneWordMatchEnd(t, i, word)])

\* re.sub(r"[ \t]+", " ", t): the first blank of a run stays, as a space
CollapseBlanks(t) ==
    LET Blank(i) == i >= 1 /\ Ch(t, i) \in {" ", "\t"}
        pieces == [i \in 1..Len(t) |->
                      IF Blank(i) THEN (IF Blank(i - 1) THEN "" ELSE " ")
                      ELSE Ch(t, i)]
    IN  JoinStr(pieces, 1, Len(t))

clean_jd_text(t) ==
    LET t1 == SubTwoWords(t, "you", "will")
        t2 == SubTwoWords(t1, "we", "will")
        t3 == SubOneWord(t2, "you^ll")
        t4 == SubOneWord(t3, "you'll")
    IN  CollapseBlanks(t4)

\* the class [A-Za-z0-9\-\+/]
TokenChars == Letters \cup CharsOf(DIGITS) \cup {"-", "+", "/"}

TokenEnd(t, j) == CHOOSE e \in j..Len(t) :
    /\ \A m \in j..e : Ch(t, m) \in TokenChars
    /\ (e = Len(t) \/ Ch(t, e + 1) \notin TokenChars)

\* some character before i, in the run of token characters that holds i, is a letter
RECURSIVE LetterBefore(_, _)
LetterBefore(t, i) ==
    /\ i > 1
    /\ Ch(t, i - 1) \in TokenChars
    /\ (Ch(t, i - 1) \in Letters \/ LetterBefore(t, i - 1))

\* re.findall(r"[A-Za-z][A-Za-z0-9\-\+/]{1,}", t).  The scan takes, in every
\* maximal run of token characters, the first letter that has a token
\* character after it, and matches from there to the end of the run.
FindTokens(t) ==
    LET IsStart(i) ==
            /\ Ch(t, i) \in Letters
            /\ i + 1 <= Len(t)
            /\ Ch(t, i + 1) \in TokenChars
            /\ ~LetterBefore(t, i)
        pieces == [i \in 1..Len(t) |->
                      IF IsStart(i) THEN <<SubSeq(t, i, TokenEnd(t, i + 1))>> ELSE <<>>]
    IN  JoinSeq(pieces, 1, Len(t))

tokenize_keep_acronyms(text) == FindTokens(Lower(text))

bigrams(tokens) ==
    [i \in 1..(Len(tokens) - 1) |-> tokens[i] \o " " \o tokens[i + 1]]

\* the items of a list, each once, in the order of their first occurrence:
\* the key order of Counter(items)
RECURSIVE FirstSeen(_, _)
FirstSeen(items, acc) ==
    IF items = <<>> THEN acc
    ELSE IF Head(items) \in Range(acc) THEN FirstSeen(Tail(items), acc)
    ELSE FirstSeen(Tail(items), Append(acc, Head(items)))

\* Counter(items): its keys in insertion order and the count of each
Counter(items) ==
    [keys |-> FirstSeen(items, <<>>),
     cnt  |-> [w \in Range(items) |-> Cardinality({i \in 1..Len(items) : items[i] = w})]]

\* score_candidates without the doubling of the preferred bigrams
score_candidates_no_preference(unigrams, bigs) ==
    LET cu0 == Counter(unigrams)
        cb0 == Counter(bigs)
        cu1 == [w \in DOMAIN cu0.cnt |->
                   IF w \in STOP /\ w \notin WHITELIST THEN 0 ELSE cu0.cnt[w]]
        cu2 == [w \in DOMAIN cu1 |-> IF w \in WHITELIST THEN cu1[w] * 2 ELSE cu1[w]]
    IN  [cu |-> [keys |-> cu0.keys, cnt |-> cu2],
         cb |-> [keys |-> cb0.keys, cnt |-> cb0.cnt]]

score_candidates(unigrams, bigs) ==
    LET cu0 == Counter(unigrams)
        cb0 == Counter(bigs)
        cu1 == [w \in DOMAIN cu0.cnt |->
                   IF w \in STOP /\ w \notin WHITELIST THEN 0 ELSE cu0.cnt[w]]
        cb1 == [p \in DOMAIN cb0.cnt |->
                   IF \E pref \in PREFERENCE : Contains(p, pref)
                   THEN cb0.cnt[p] * 2 ELSE cb0.cnt[p]]
        cu2 == [w \in DOMAIN cu1 |-> IF w \in WHITELIST THEN cu1[w] * 2 ELSE cu1[w]]
    IN  [cu |-> [keys |-> cu0.keys, cnt |-> cu2],
         cb |-> [keys |-> cb0.keys, cnt |-> cb1]]

\* sorted(keys, key=count, reverse=True): the largest count first, equal counts
\* in insertion order
RECURSIVE ByCount(_, _)
ByCount(keys, cnt) ==
    IF keys = <<>> THEN <<>>
    ELSE LET top == CHOOSE i \in 1..Len(keys) :
                        /\ \A j \in 1..Len(keys) : cnt[keys[j]] <= cnt[keys[i]]
                        /\ \A j \in 1..(i - 1) : cnt[keys[j]] < cnt[keys[i]]
         IN  <<keys[top]>> \o
             ByCount(SubSeq(keys, 1, top - 1) \o SubSeq(keys, top + 1, Len(keys)), cnt)

Take(seq, n) == SubSeq(seq, 1, Min(n, Len(seq)))

\* Counter.most_common(n), as the list of its keys
most_common(c, n) == Take(ByCount(c.keys, c.cnt), n)

\* str.split(): the maximal runs of characters that are not white space, from i
RECURSIVE Split(_, _)
Split(term, i) ==
    IF i > Len(term) THEN <<>>
    ELSE IF Ch(term, i) \in SpaceChars THEN Split(term, i + 1)
    ELSE LET e == CHOOSE j \in i..Len(term) :
                      /\ \A m \in i..j : Ch(term, m) \notin SpaceChars
                      /\ (j = Len(term) \/ Ch(term, j + 1) \in SpaceChars)
         IN  <<SubSeq(term, i, e)>> \o Split(term, e + 1)

\* _ok, lines 190-192
ok(term) == \A part \in Range(Split(term, 1)) : part \notin STOP

\* the loop of lines 193-200
RECURSIVE Cleaned(_, _)
Cleaned(candidates, cleaned) ==
    IF candidates = <<>> THEN cleaned
    ELSE LET term == Head(candidates)
         IN  IF ~ok(term) THEN Cleaned(Tail(candidates), cleaned)
             ELSE IF term \in Range(cleaned) THEN Cleaned(Tail(candidates), cleaned)
             ELSE Cleaned(Tail(candidates), Append(cleaned, term))

SENTINEL == "key responsibilities"

\* line 201 without its fall-back to the sentinel
finish_no_sentinel(cleaned, kk) == Take(cleaned, kk)

\* line 201
finish(cleaned, kk) == IF cleaned # <<>> THEN Take(cleaned, kk) ELSE <<SENTINEL>>

\* derive_keywords(text, k).  `order` lists the members of _WHITELIST in the
\* order in which this process iterates over that set (line 188).
derive_keywords(text, kk, order) ==
    Bind(SelectSeq(tokenize_keep_acronyms(clean_jd_text(text)),
                   LAMBDA w : Len(w) >= 3 \/ w \in WHITELIST), LAMBDA toks :
    Bind(score_candidates(toks, bigrams(toks)), LAMBDA sc :
    Bind(SelectSeq(most_common(sc.cb, 20), LAMBDA w : sc.cb.cnt[w] > 1), LAMBDA top_bigrams :
        LET used == UNION {Range(Split(b, 1)) : b \in Range(top_bigrams)}
            top_unigrams == SelectSeq(most_common(sc.cu, 30),
                                LAMBDA w : sc.cu.cnt[w] > 1 /\ w \notin STOP /\ w \notin used)
            tech_hits == SelectSeq(order, LAMBDA w : w \in Range(toks))
            candidates == top_bigrams \o tech_hits \o top_unigrams
        IN  finish(Cleaned(candidates, <<>>), kk))))

\* str.format(kw=kw) on a template that holds the field {kw} once
Format(template, kw) ==
    LET i == CHOOSE j \in 1..Len(template) : SubSeq(template, j, j + 3) = "{kw}"
    IN  SubSeq(template, 1, i - 1) \o kw \o SubSeq(template, i + 4, Len(template))

behav_templates == <<
    "Tell me about a time you delivered results related to {kw}. What was the impact?",
    "Describe a challenging situation involving {kw}. How did you handle it?",
    "Give an example of when you improved a process around {kw}. What changed?">>

situ_templates == <<
    "You^ve joined a team where {kw} is underperforming. What do you do in the first 30 days?",
    "A key dependency for {kw} slips. How do you reprioritise and communicate risk?",
    "How would you measure success for initiatives involving {kw}?">>

tech_templates == <<
    "Walk me through how you would design or implement a solution for {kw}.",
    "What trade-offs would you consider when scaling {kw}?",
    "How would you diagnose and fix recurring issues related to {kw}?">>

\* the questions of one category with every keyword put into the first template
Questioned_first_template(templates, keywords) ==
    [i \in 1..Len(keywords) |-> Format(templates[1], keywords[i])]

\* the questions of one category, lines 221-224: keyword number i (from 0)
\* goes into template i % len(templates)
Questioned(templates, keywords) ==
    [i \in 1..Len(keywords) |->
        Format(templates[((i - 1) % Len(templates)) + 1], keywords[i])]

\* lines 226-230
UniqueFirst12(qs) == Take(FirstSeen(qs, <<>>), 12)

generate_spec_questions(text, order) ==
    Bind(derive_keywords(text, 8, order), LAMBDA keywords :
        [behavioral  |-> UniqueFirst12(Questioned(behav_templates, keywords)),
         situational |-> UniqueFirst12(Questioned(situ_templates, keywords)),
         technical   |-> UniqueFirst12(Questioned(tech_templates, keywords))])

\* nothing of the job spec pipeline has run
NoSpec ==
    /\ raw_text = ""
    /\ k = 0
    /\ kws = <<>>
    /\ custom_pool = <<>>
    /\ whitelist_order = <<>>

\* no remote call was made
NoCall == [kind |-> "none"]

\* the page as it is before the user touches it: every widget holds its
\* default, no question bank was found, nothing is in the session state
NoSession ==
    /\ QUESTIONS = <<>>
    /\ role = "general"
    /\ qtype = "behavioral"
    /\ difficulty = "medium"
    /\ use_llm = FALSE
    /\ api_base = ""
    /\ api_key = ""
    /\ spec_url = ""
    /\ spec_text = ""
    /\ history = <<>>
    /\ timer_start = <<>>
    /\ now = 0
    /\ response = NoCall

-----------------------------------------------------------------------------
(* The inputs the scorer is run on *)

\* at most this many fragments make up an answer
MaxFrags == 2

Questions == {DEFAULT_QUESTION, "Why SQL?", ""}

AnswerFrags == {
    "The SITUATION was bad. My Task: fix it. My action was quick. The Result: done. ",
    "Background, goal, what I did and the outcome. ",
    "I handled a difficult challenge. Tell me about a time you did. ",
    "um, like, you know ",
    "Um ",
    "I guess it was kind of plumbing. ",
    "sql "}

RECURSIVE Concats(_)
Concats(n) ==
    IF n = 0 THEN {""}
    ELSE LET shorter == Concats(n - 1)
         IN  shorter \cup {s \o f : s \in shorter, f \in AnswerFrags}

Answers == Concats(MaxFrags)

\* grades on both sides of every threshold of readability
Grades == {-156, 0, 1, 35, 42, 43, 69, 70, 90, 110, 111, 150, 179, 180, 181, 250}

GradeOutcomes == {GradeFails} \cup {GradeIs(g) : g \in Grades}

-----------------------------------------------------------------------------
(* SpecScore: overall_score applied to one (question, answer) pair *)

InitScore ==
    /\ pc = "input"
    /\ question \in Questions
    /\ answer \in Answers
    /\ grade \in GradeOutcomes
    /\ scores = NoScores
    /\ NoSpec
    /\ NoSession

\* scores=overall_score(question,answer), line 291
Evaluate ==
    /\ pc = "input"
    /\ scores' = overall_score(question, answer, grade)
    /\ pc' = "scored"
    /\ UNCHANGED <<question, answer, grade>>
    /\ UNCHANGED <<specVars, sessionVars>>

NextScore == Evaluate

SpecScore == InitScore /\ [][NextScore]_vars

-----------------------------------------------------------------------------
(* SpecConc: an answer that grows word by word and is scored after each word *)

\* the longest answer, in words
MaxWords == 705

InitConc ==
    /\ pc = "input"
    /\ question = DEFAULT_QUESTION
    /\ answer = ""
    /\ grade \in {GradeFails, GradeIs(90)}
    /\ scores = NoScores
    /\ NoSpec
    /\ NoSession

TypeWord ==
    /\ pc = "scored"
    /\ WordCount(answer) < MaxWords
    /\ answer' = answer \o "w "
    /\ scores' = overall_score(question, answer', grade)
    /\ UNCHANGED <<pc, question, grade>>
    /\ UNCHANGED <<specVars, sessionVars>>

NextConc == Evaluate \/ TypeWord

SpecConc == InitConc /\ [][NextConc]_vars

-----------------------------------------------------------------------------
(* Claims about the scorer *)

InRange(x, lo, hi) == lo <= x /\ x <= hi

\* C1: whatever the question, the answer and the outcome of the readability
\* library (a failure included), overall_score reports final, relevance,
\* structure, conciseness and readability within [0, 100] and filler_penalty
\* within [0, 20].
C1_ScoresInRange ==
    pc = "scored" =>
        /\ InRange(scores.final, 0, 1000)
        /\ InRange(scores.relevance, 0, 1000)
        /\ InRange(scores.structure, 0, 1000)
        /\ InRange(scores.conciseness, 0, 1000)
        /\ InRange(scores.readability, 0, 1000)
        /\ InRange(scores.filler_penalty, 0, 200)

\* an answer of fillers, scored after the readability library failed: the
\* penalty sits at its cap
C1_Witness ==
    /\ pc = "scored"
    /\ ~grade.ok
    /\ detect_fillers(answer) > 0
    /\ scores.filler_penalty = 200
    /\ scores.readability = 600

EmptyAnswerScored == pc = "scored" /\ question # "" /\ answer = ""

\* C2 as stated: for a non-empty question the empty answer is reported with
\* conciseness = 0, relevance = 0 and final = 0.
C2_EmptyAnswerFinalZero ==
    EmptyAnswerScored =>
        /\ scores.conciseness = 0
        /\ scores.relevance = 0
        /\ scores.final = 0

\* C2 as amended: for a non-empty question the empty answer is reported with
\* conciseness = 0 and relevance = 0 (and structure = 0, filler_penalty = 0),
\* and final is a fifth of the readability sub-score: 10.0 when the library
\* grades the empty text at or below 0, 12.0 when it fails, and between 6.0
\* and 20.0 in every case.
C2_EmptyAnswerKeepsReadability ==
    EmptyAnswerScored =>
        /\ scores.conciseness = 0
        /\ scores.relevance = 0
        /\ scores.structure = 0
        /\ scores.filler_penalty = 0
        /\ InRange(scores.final, 60, 200)
        /\ InRange(5 * scores.final - scores.readability, -2, 2)
        /\ (grade.ok /\ grade.tenths <= 0) => scores.final = 100
        /\ ~grade.ok => scores.final = 120

C2_Witness ==
    /\ EmptyAnswerScored
    /\ grade.ok
    /\ grade.tenths <= 0
    /\ scores.final = 100

\* the answer holds, in any letter case, a keyword of each STAR family
MentionsAllStar(a) ==
    \A fam \in DOMAIN STAR_KEYS :
        \E kw \in STAR_KEYS[fam] : Contains(Lower(a), Lower(kw))

\* C6: an answer that holds, in any letter case, at least one keyword of each
\* of the four families of STAR_KEYS is reported with structure = 100.
C6_AllFamiliesGiveFullStructure ==
    (pc = "scored" /\ MentionsAllStar(answer)) => scores.structure = 1000

\* the change of the conciseness score when one word is added to an answer of n words
ConcStep(strict_until) ==
    LET n == WordCount(answer)
        c == scores.conciseness
        d == scores'.conciseness
    IN  (pc = "scored" /\ pc' = "scored" /\ WordCount(answer') = n + 1) =>
            /\ n + 1 <= 150 => c < d
            /\ (300 <= n /\ n < strict_until) => d < c
            /\ n >= strict_until => (d <= c /\ d = 0)

ConcBand ==
    pc = "scored" =>
        LET n == WordCount(answer)
        IN  IF 150 <= n /\ n <= 300 THEN scores.conciseness = 1000
            ELSE scores.conciseness < 1000

\* C7 as stated: conciseness is exactly 100 for a word count in [150, 300],
\* below 100 outside, and every further word away from the band lowers it
\* strictly, on both sides, however long the answer.
C7_StrictlyMonotone ==
    /\ []ConcBand
    /\ [][ConcStep(MaxWords + 1)]_vars

\* C7 as amended: conciseness is exactly 100 for a word count in [150, 300]
\* and below 100 outside; below the band every word less lowers it strictly;
\* above the band every word more lowers it strictly up to 700 words, and
\* from 700 words on it stays at its floor 0.
C7_MonotoneToFloor ==
    /\ []ConcBand
    /\ [][ConcStep(700)]_vars

C7_Witness ==
    /\ pc = "scored"
    /\ WordCount(answer) = 701
    /\ scores.conciseness = 0

-----------------------------------------------------------------------------
(* SpecKw: the job spec pipeline applied to one text, in one process and   *)
(* again after the process was started anew                                *)

\* at most this many fragments make up a job spec
MaxParts == 3

\* the largest k handed to derive_keywords
MaxK == 2

SpecFrags == {
    "SQL data; SQL data.",
    "ux",
    "data",
    "welding",
    "You will lead the team."}

RECURSIVE SpecTexts(_)
SpecTexts(n) ==
    IF n = 0 THEN {""}
    ELSE IF n = 1 THEN {""} \cup SpecFrags
    ELSE LET shorter == SpecTexts(n - 1)
         IN  shorter \cup {s \o " " \o f : s \in shorter \ {""}, f \in SpecFrags}

RawTexts == SpecTexts(MaxParts)

\* the members of _WHITELIST that the job specs of the model can hold; no
\* other member passes the test `w in toks` of line 188
TextAcronyms ==
    WHITELIST \cap UNION {Range(tokenize_keep_acronyms(f)) : f \in SpecFrags}

\* The iteration order of a set of strings follows the strings' hashes, which
\* Python salts anew in every process: any order of the members is possible.
WhitelistOrders ==
    {o \in [1..Cardinality(TextAcronyms) -> TextAcronyms] :
        \A i, j \in DOMAIN o : o[i] = o[j] => i = j}

InitKw ==
    /\ pc = "start"
    /\ raw_text \in RawTexts
    /\ k \in 1..MaxK
    /\ whitelist_order \in WhitelistOrders
    /\ kws = <<>>
    /\ custom_pool = <<>>
    /\ question = ""
    /\ answer = ""
    /\ grade = GradeFails
    /\ scores = NoScores
    /\ NoSession

\* a call derive_keywords(raw_text, k)
Derive ==
    /\ pc \in {"start", "restarted"}
    /\ kws' = derive_keywords(raw_text, k, whitelist_order)
    /\ pc' = "derived"
    /\ UNCHANGED <<raw_text, k, custom_pool, whitelist_order>>
    /\ UNCHANGED <<scoreVars, sessionVars>>

\* st.session_state["custom_pool"]=generate_spec_questions(raw), line 259
Generate ==
    /\ pc = "derived"
    /\ custom_pool' = <<generate_spec_questions(raw_text, whitelist_order)>>
    /\ pc' = "generated"
    /\ UNCHANGED <<raw_text, k, kws, whitelist_order>>
    /\ UNCHANGED <<scoreVars, sessionVars>>

\* The program is started anew: the set _WHITELIST is built again, under a
\* new hash salt.  kws and custom_pool keep what the run before returned.
Restart ==
    /\ pc = "generated"
    /\ whitelist_order' \in WhitelistOrders
    /\ pc' = "restarted"
    /\ UNCHANGED <<raw_text, k, kws, custom_pool>>
    /\ UNCHANGED <<scoreVars, sessionVars>>

NextKw == Derive \/ Generate \/ Restart

SpecKw == InitKw /\ [][NextKw]_vars

-----------------------------------------------------------------------------
(* Claims about the job spec pipeline *)

Distinct(seq) == \A i, j \in DOMAIN seq : seq[i] = seq[j] => i = j

\* derive_keywords has returned
Derived == pc \in {"derived", "generated", "restarted"}

\* the tokens of the text
TokensOf(text) == Range(tokenize_keep_acronyms(clean_jd_text(text)))

\* the term is made of the given tokens, none of them a stop word
MadeOf(term, tokens) ==
    \A part \in Range(Split(term, 1)) : part \in tokens /\ part \notin STOP

\* what C3 asks of the keywords, given the tokens of the text: when every
\* token is a stop word no candidate can pass the filter of lines 190-192
KeywordsFit(tokens) ==
    /\ (\A w \in tokens : w \in STOP) => kws = <<SENTINEL>>
    /\ kws # <<SENTINEL>> => \A i \in DOMAIN kws : MadeOf(kws[i], tokens)

\* C3: for every raw text (the empty one included) and every k >= 1,
\* derive_keywords returns a list that is not empty, has at most k entries
\* and no entry twice; when no candidate survives the filters the list is
\* exactly the sentinel, and any other list is made of tokens of the text.
C3_KeywordsBounded ==
    Derived =>
        /\ Len(kws) >= 1
        /\ Len(kws) <= k
        /\ Distinct(kws)
        /\ Bind(TokensOf(raw_text), KeywordsFit)

\* the list was cut to k entries: more candidates than k survived
C3_Witness ==
    /\ pc = "derived"
    /\ Len(kws) = k
    /\ Len(derive_keywords(raw_text, 8, whitelist_order)) > k

\* C4: two calls of derive_keywords on the same text with the same k return
\* the same list, also when the program was started anew in between, and
\* generate_spec_questions then returns the same pool.
C4_SameTextSameKeywords ==
    [][/\ (pc = "restarted" /\ pc' = "derived") => kws' = kws
       /\ (pc = "derived" /\ custom_pool # <<>> /\ pc' = "generated")
              => custom_pool' = custom_pool]_vars

RECURSIVE Repeat(_, _)
Repeat(w, n) == IF n = 1 THEN w ELSE Repeat(w, n - 1) \o " " \o w

\* a lower-case token: the tokenizer takes it whole, the length filter and
\* the stop words let it pass
ValidToken(w) ==
    /\ tokenize_keep_acronyms(w) = <<w>>
    /\ Lower(w) = w
    /\ (Len(w) >= 3 \/ w \in WHITELIST)
    /\ w \notin STOP

\* the pairs <<w, n>> such that raw_text is the valid token w, n >= 2 times
Repetitions ==
    {r \in SpecFrags \X (2..MaxParts) : ValidToken(r[1]) /\ raw_text = Repeat(r[1], r[2])}

HasPreference(w) == \E pref \in PREFERENCE : Contains(w, pref)

Categories == {"behavioral", "situational", "technical"}

TemplatesOf(cat) ==
    CASE cat = "behavioral" -> behav_templates
      [] cat = "situational" -> situ_templates
      [] cat = "technical" -> tech_templates

\* C8: generate_spec_questions returns a mapping with exactly the keys
\* behavioral, situational and technical; every category holds no question
\* twice, at most 12 questions, and exactly one question per extracted
\* keyword, in keyword order, keyword number i (from 0) put into template
\* number i mod 3 of the category.
C8_PoolShape ==
    pc = "generated" =>
        LET pool == custom_pool[1]
            keywords == derive_keywords(raw_text, 8, whitelist_order)
        IN  /\ DOMAIN pool = Categories
            /\ \A cat \in Categories :
                /\ Distinct(pool[cat])
                /\ Len(pool[cat]) <= 12
                /\ Len(pool[cat]) = Len(keywords)
                /\ \A i \in DOMAIN keywords :
                       pool[cat][i] = Format(TemplatesOf(cat)[((i - 1) % 3) + 1], keywords[i])

\* more keywords than templates: the templates are used a second time round
C8_Witness ==
    /\ pc = "generated"
    /\ Len(custom_pool[1].behavioral) >= 4

-----------------------------------------------------------------------------
(* Spec: the page.  Every action is one run of the script from top to      *)
(* bottom, set off by one thing the user does to a widget; the widgets     *)
(* keep their values from run to run, a button is True only in the run     *)
(* its click set off.  The en dash U+2013 of the outline is written ~.     *)

\* str.upper() on the one-letter keys of STAR_KEYS
Upper(c) ==
    LET i == CHOOSE j \in 1..Len(LOWERCASE) : Ch(LOWERCASE, j) = c
    IN  Ch(UPPERCASE, i)

\* " / ".join(parts)
RECURSIVE JoinSlash(_)
JoinSlash(parts) ==
    IF parts = <<>> THEN ""
    ELSE IF Len(parts) = 1 THEN parts[1]
    ELSE parts[1] \o " / " \o JoinSlash(Tail(parts))

suggest_outline(q, a) ==
    LET cov == star_coverage(a)
        miss == SelectSeq(<<"s", "t", "a", "r">>, LAMBDA fam : cov[fam] < 1)
        upper == [i \in 1..Len(miss) |-> Upper(miss[i])]
        parts == IF upper # <<>> THEN JoinSlash(upper) ELSE "All STAR elements present"
    IN  "**Suggested STAR outline**\n"
        \o "- **Situation:** One-sentence context  \n"
        \o "- **Task:** What you owned  \n"
        \o "- **Action:** 3~5 bullets of what you did  \n"
        \o "- **Result:** Quantify impact + 1 lesson  \n"
        \o "*Missing:* " \o parts

\* str(n) for n >= 0
RECURSIVE DecimalOf(_)
DecimalOf(n) ==
    IF n < 10 THEN Ch(DIGITS, n + 1)
    ELSE DecimalOf(n \div 10) \o Ch(DIGITS, (n % 10) + 1)

\* What the request of line 109 can meet: an answer with a status code, or
\* an exception (of requests.post, or of reading the answer's JSON).
Responses == {
    [kind |-> "status", status |-> 200, content |-> "Clear result. Quantify it."],
    [kind |-> "status", status |-> 500, content |-> ""],
    [kind |-> "exception", error |-> "Read timed out."]}

\* llm_feedback(api_base, api_key, q, a), the request meeting `met`
llm_feedback(base, key, q, a, met) ==
    IF base = "" \/ key = "" THEN ""
    ELSE IF met.kind = "status"
         THEN IF met.status = 200 THEN met.content
              ELSE "(LLM error " \o DecimalOf(met.status) \o ")"
         ELSE "(LLM feedback error: " \o met.error \o ")"

\* str.strip()
Strip(t) ==
    LET inked == {i \in 1..Len(t) : Ch(t, i) \notin SpaceChars}
    IN  IF inked = {} THEN ""
        ELSE SubSeq(t, CHOOSE i \in inked : \A j \in inked : i <= j,
                       CHOOSE i \in inked : \A j \in inked : i >= j)

\* the text of the page the model's URL leads to
PageText == "welding welding ux"

\* extract_text_from_url(url): the texts it can return.  Without a URL the
\* request raises; with one, the page is fetched or the fetch fails.
extract_text_from_url(url) == IF url = "" THEN {""} ELSE {"", PageText}

\* d.get(key, default) on a dictionary given as a function
Get(d, key, default) == IF key \in DOMAIN d THEN d[key] ELSE default

\* random.choice(seq): the values it can return; none when it raises on an
\* empty sequence
choice(seq) == Range(seq)

CUSTOM == "Custom (from job spec)"

\* get_question(): the questions it can return
get_question(r, ty, d, pool_state, bank) ==
    LET pool == IF r = CUSTOM /\ pool_state # <<>>
                THEN Get(pool_state[1], ty, <<>>) ELSE <<>>
        listed == Get(Get(Get(bank, r, <<>>), ty, <<>>), d, <<>>)
    IN  IF pool # <<>> THEN choice(pool)
        ELSE IF listed # <<>> THEN choice(listed)
        ELSE {DEFAULT_QUESTION}

\* the options of the role box, lines 240-241
roles(pool_state) ==
    {"general", "software_engineer", "product_manager", "sales"}
        \cup (IF pool_state # <<>> THEN {CUSTOM} ELSE {})

\* str(uuid.uuid4()): a token that no attempt of the history carries
uuid4(hist) == "uuid-" \o DecimalOf(Len(hist) + 1)

\* the history with only the newest attempt kept
append_latest_only(hist, att) == <<att>>

\* st.session_state["history"].append(asdict(att)), line 294
append(hist, att) == Append(hist, att)

\* The clock is read in whole seconds, every run of the script reads it
\* later than the run before, and no run is later than this second.
MaxTime == 4

\* the readings of the clock that a run after the reading t0 can make
Later(t0) == (t0 + 1)..MaxTime

\* what load_questions can return: nothing when questions.yaml cannot be
\* read, else the mapping role -> type -> difficulty -> questions of the file
Banks == {
    <<>>,
    [general |-> [behavioral |-> [medium |->
        <<"Tell me about a conflict at work.", "Why SQL?">>]]]}

\* what the user of the model enters
UIRoles == {"general", CUSTOM}
UITypes == {"behavioral", "technical"}
UIAnswers == {"", "My task was SQL. Um, the result: done."}
UISpecs == {<<"", "">>, <<" welding welding ux ", "">>, <<" ", "https://example.com/job">>}
UICredentials == {<<"", "">>, <<"https://api.openai.com/v1", "sk-test">>}
\* what textstat can do on the answer: no sentence and no word give a grade
\* below zero or an exception, the model's sentence a grade of 9.0
UIGrades(a) == IF a = "" THEN {GradeFails, GradeIs(-156)} ELSE {GradeIs(90)}

\* lines 256-262: the button "Generate from spec" was pressed
GenerateHandler ==
    \E fetched \in extract_text_from_url(Strip(spec_url')) :
        LET raw == IF Strip(spec_text') # "" THEN Strip(spec_text') ELSE fetched
        IN  IF raw # ""
            THEN /\ custom_pool' = <<generate_spec_questions(raw, whitelist_order)>>
                 /\ raw_text' = raw
            ELSE UNCHANGED <<custom_pool, raw_text>>

\* lines 289-295: the button "Evaluate Answer" was pressed at time t
EvaluateHandler(t) ==
    \E g \in UIGrades(answer'), met \in Responses :
        LET dur == IF timer_start # <<>> THEN t - timer_start[1] ELSE 0
            called == use_llm' /\ api_base' # "" /\ api_key' # ""
            llm_fb == IF use_llm' THEN llm_feedback(api_base', api_key', question', answer', met)
                      ELSE ""
        IN  /\ grade' = g
            /\ scores' = overall_score(question', answer', g)
            /\ response' = IF called THEN met ELSE NoCall
            /\ history' = append(history,
                   [id |-> uuid4(history), timestamp |-> t, role |-> role', qtype |-> qtype',
                    difficulty |-> difficulty', question |-> question', answer |-> answer',
                    duration_sec |-> dur, scores |-> scores',
                    feedback |-> suggest_outline(question', answer'),
                    llm_feedback |-> llm_fb])

\* One run of the script, lines 233-307, with the widgets holding their primed
\* values, `button` the button that is True in it ("none" when a widget set
\* the run off), and the clock read as t.
Script(button, t) ==
    /\ pc' = button
    /\ now' = t
    /\ IF button = "Generate from spec" THEN GenerateHandler
       ELSE UNCHANGED <<custom_pool, raw_text>>
    /\ question' \in get_question(role', qtype', difficulty', custom_pool', QUESTIONS)
    /\ timer_start' = IF button = "Start timer" THEN <<t>> ELSE timer_start
    /\ IF button = "Evaluate Answer" THEN EvaluateHandler(t)
       ELSE UNCHANGED <<grade, scores, response, history>>
    /\ UNCHANGED <<k, kws, whitelist_order, QUESTIONS>>

Init ==
    /\ pc = "none"
    /\ QUESTIONS \in Banks
    /\ whitelist_order \in WhitelistOrders
    /\ role = "general"
    /\ qtype = "behavioral"
    /\ difficulty = "medium"
    /\ use_llm = FALSE
    /\ api_base = ""
    /\ api_key = ""
    /\ spec_url = ""
    /\ spec_text = ""
    /\ answer = ""
    /\ question \in get_question(role, qtype, difficulty, <<>>, QUESTIONS)
    /\ history = <<>>
    /\ timer_start = <<>>
    /\ now = 0
    /\ response = NoCall
    /\ grade = GradeFails
    /\ scores = NoScores
    /\ raw_text = ""
    /\ k = 8
    /\ kws = <<>>
    /\ custom_pool = <<>>

SelectRole ==
    \E r \in UIRoles \cap roles(custom_pool), t \in Later(now) :
        /\ role' = r
        /\ UNCHANGED <<qtype, difficulty, use_llm, api_base, api_key, spec_url, spec_text, answer>>
        /\ Script("none", t)

SelectType ==
    \E ty \in UITypes, t \in Later(now) :
        /\ qtype' = ty
        /\ UNCHANGED <<role, difficulty, use_llm, api_base, api_key, spec_url, spec_text, answer>>
        /\ Script("none", t)

ToggleLLM ==
    \E t \in Later(now) :
        /\ use_llm' = ~use_llm
        /\ UNCHANGED <<role, qtype, difficulty, api_base, api_key, spec_url, spec_text, answer>>
        /\ Script("none", t)

\* the two fields are disabled while the toggle is off
TypeCredentials ==
    \E c \in UICredentials, t \in Later(now) :
        /\ use_llm
        /\ api_base' = c[1]
        /\ api_key' = c[2]
        /\ UNCHANGED <<role, qtype, difficulty, use_llm, spec_url, spec_text, answer>>
        /\ Script("none", t)

TypeSpec ==
    \E sp \in UISpecs, t \in Later(now) :
        /\ spec_text' = sp[1]
        /\ spec_url' = sp[2]
        /\ UNCHANGED <<role, qtype, difficulty, use_llm, api_base, api_key, answer>>
        /\ Script("none", t)

TypeAnswer ==
    \E a \in UIAnswers, t \in Later(now) :
        /\ answer' = a
        /\ UNCHANGED widgetVars
        /\ Script("none", t)

GenerateFromSpec ==
    \E t \in Later(now) :
        /\ UNCHANGED <<widgetVars, answer>>
        /\ Script("Generate from spec", t)

StartTimer ==
    \E t \in Later(now) :
        /\ UNCHANGED <<widgetVars, answer>>
        /\ Script("Start timer", t)

EvaluateAnswer ==
    \E t \in Later(now) :
        /\ UNCHANGED <<widgetVars, answer>>
        /\ Script("Evaluate Answer", t)

Next ==
    \/ SelectRole
    \/ SelectType
    \/ ToggleLLM
    \/ TypeCredentials
    \/ TypeSpec
    \/ TypeAnswer
    \/ GenerateFromSpec
    \/ StartTimer
    \/ EvaluateAnswer

Spec == Init /\ [][Next]_vars

-----------------------------------------------------------------------------
(* Claims about the page *)

Last(seq) == seq[Len(seq)]

\* the remote call did not return status 200
Failed(met) ==
    \/ met.kind = "exception"
    \/ met.kind = "status" /\ met.status # 200

\* C9: the history is an append-only log.  Every run set off by the button
\* Evaluate Answer appends exactly one Attempt at the end of the history, no
\* other run changes the history, and no run removes, reorders or changes a
\* record that is in it; when the remote feedback call fails (a status other
\* than 200, or an exception) the Attempt is appended all the same and holds
\* the diagnostic string in llm_feedback.
C9_HistoryAppendOnly ==
    [][/\ SubSeq(history', 1, Len(history)) = history
       /\ IF pc' = "Evaluate Answer"
          THEN Len(history') = Len(history) + 1
          ELSE history' = history
       /\ (pc' = "Evaluate Answer" /\ Failed(response')) =>
              Last(history').llm_feedback \in
                  {"(LLM error 500)", "(LLM feedback error: Read timed out.)"}]_vars

\* a second attempt was appended, its remote call answered with status 500
C9_Witness ==
    /\ pc = "Evaluate Answer"
    /\ Len(history) = 2
    /\ response.kind = "status"
    /\ response.status = 500
    /\ history[2].llm_feedback = "(LLM error 500)"
    /\ history[1].id # history[2].id

\* C10: the run set off by the button Evaluate Answer draws the question the
\* run before it displayed, and stores that question in the Attempt.
C10_EvaluateKeepsQuestion ==
    [][pc' = "Evaluate Answer" =>
          /\ question' = question
          /\ Last(history').question = question]_vars

====
